---- MODULE Spec2Model ----
(***************************************************************************)
(* The reconciler of the InfiniBand daemon (pkg/daemon/daemon.go): the two *)
(* periodic passes AddPeriodicUpdate and DeletePeriodicUpdate, stepped at  *)
(* every call they make to a collaborator (orchestrator, GUID pool, subnet *)
(* manager), running concurrently with each other and with the watcher     *)
(* that fills the two pending-work maps.                                   *)
(*                                                                         *)
(* The GUID pool, the watcher, ParsePKey and the annotation helpers are    *)
(* other packages of the repository; they are modelled from their          *)
(* contracts in the specification (sections 4.1, 4.3, 3 and 6).            *)
(***************************************************************************)
EXTENDS Integers, Sequences, FiniteSets, TLC

\* ---------------------------------------------------------------- bounds
\* The last GUID of the pool's range, which starts at 1.
RangeEnd == 2

\* ------------------------------------------------------------- constants
\* The workloads (UIDs) and the networks of the model.
Pods == {1, 2, 3}
Networks == {"ibnet", "net2"}
RangeStart == 0 + 1
Guids == RangeStart..RangeEnd
NoGuid == RangeStart - 1
\* A GUID text that is not a hardware address.
BadGuid == NoGuid - 1
\* GUIDs a user may write into a selection entry: RangeStart (it collides
\* with the first generated GUID) and one GUID outside the range.
UserGuids == {RangeStart, RangeEnd + 1}
NoNet == "none"
Free == <<NoGuid, NoNet>>

\* ----------------------------------------------------------------- state
VARIABLES
    nad,              \* network name -> NetworkAttachmentDefinition config
    podState,         \* pod -> "absent" | "live" | "deleted"
    k8sAnn,           \* pod -> annotations stored by the orchestrator
    ann,              \* pod -> annotations of the pod object held in addSet
    addSet,           \* network name -> list of pods (watcher's add map)
    deleteSet,        \* network name -> list of pods (watcher's delete map)
    pool,             \* guid -> owning (uid, network) key, or Free
    smMembers,        \* set of <<pkey, guid>> admitted at the subnet manager
    addPc, addTodo, addCur, addIdx,
    guidList, passedPods, failedPods, removedGuidList,
    delPc, delTodo, delCur, delIdx, delGuidList, delFailedPods,
    addHist,          \* what the add pass has done for addCur (history)
    addPass,          \* the networks the add pass ranges over and has visited
    healthy,          \* TRUE once the collaborators answer every call
    life,             \* the daemon's life cycle: NewDaemon's steps, Run, the stop
    delHist           \* what the delete pass has done for delCur (history)

envVars == <<nad, podState, k8sAnn, healthy, life>>
addVars == <<addPc, addTodo, addCur, addIdx, guidList, passedPods, failedPods,
             removedGuidList, addHist, addPass>>
delVars == <<delPc, delTodo, delCur, delIdx, delGuidList, delFailedPods, delHist>>
vars == <<nad, podState, k8sAnn, ann, addSet, deleteSet, pool, smMembers,
          addPc, addTodo, addCur, addIdx, guidList, passedPods, failedPods,
          removedGuidList, delPc, delTodo, delCur, delIdx, delGuidList,
          delFailedPods, addHist, delHist, addPass, healthy, life>>

\* ------------------------------------------------------------- sequences
RECURSIVE SeqToSet(_)
SeqToSet(s) == IF s = <<>> THEN {} ELSE {Head(s)} \cup SeqToSet(Tail(s))

Min(S) == CHOOSE x \in S : \A y \in S : x <= y

\* ------------------------------------------------- annotations (projection)
\* One network selection entry: present in the annotation or not, the GUID
\* under cni-args ("guid"), and the "mellanox.infiniband.app": "configured"
\* marker.
Absent == [present |-> FALSE, guid |-> NoGuid, cfg |-> FALSE]
NewEntry(g) == [present |-> TRUE, guid |-> g, cfg |-> FALSE]
\* The annotation of a pod: ok = FALSE when it does not parse.
NoAnn == [ok |-> TRUE, nets |-> [n \in Networks |-> Absent]]

ParsePodNetworkAnnotation(a) == a.ok
GetPodNetwork(a, n) == a.nets[n]
GetPodNetworkGuid(e) == e.guid
\* net.ParseMAC succeeds on every GUID text but the bad one.
ParseMAC(g) == g # BadGuid
IsPodNetworkConfiguredWithInfiniBand(e) == e.cfg
SetPodNetworkGuid(a, n, g) == [a EXCEPT !.nets[n].guid = g]
SetConfigured(a, n) == [a EXCEPT !.nets[n].cfg = TRUE]

\* Annotations a pod can be created with, all selecting ibnet: one
\* selection entry without a GUID or with a user-supplied one, or an
\* annotation that does not parse.
PodShapes ==
    { [NoAnn EXCEPT !.nets["ibnet"] = NewEntry(g)] : g \in {NoGuid} \cup UserGuids }
    \cup { [ok |-> FALSE, nets |-> [NoAnn.nets EXCEPT !["ibnet"] = NewEntry(NoGuid)]] }

\* ------------------------------------------ NetworkAttachmentDefinition
\* kind: "malformed" (the config is not JSON), "notib" (JSON without an
\* ib-sriov entry) or "ib"; pkey: the hex digits after "0x", <<>> for "".
NadConfigs ==
    { [kind |-> "malformed", pkey |-> <<>>], [kind |-> "notib", pkey |-> <<>>] }
    \cup { [kind |-> "ib", pkey |-> d] :
             d \in { <<>>, <<0, 0, 0, 5>>, <<0, 0, 0, 0>>, <<7, 15, 15, 15>> } }
\* net2 is an ib-sriov network without a PKey.
Net2Config == [kind |-> "ib", pkey |-> <<>>]

JsonUnmarshalOK(c) == c.kind # "malformed"
GetIbSriovCniFromNetworkOK(c) == c.kind = "ib"

\* ParsePKey: the value of the hex digits; 0x0000 and 0x7fff are refused.
PKeyError == 0 - 1
RECURSIVE HexValue(_)
HexValue(d) == IF d = <<>> THEN 0 ELSE 16 * HexValue(SubSeq(d, 1, Len(d) - 1)) + d[Len(d)]
\* The top bit (membership flag) is masked off.
ParsePKey(d) ==
    LET v == HexValue(d) % 32768
    IN  IF v = 0 \/ v = 32767 THEN PKeyError ELSE v

\* -------------------------------------------------------------- GUID pool
FreeGuids(pl) == { g \in Guids : pl[g] = Free }
\* GenerateGUID: the lowest free GUID of the range, NoGuid when exhausted.
GenerateGUID(pl) == IF FreeGuids(pl) = {} THEN NoGuid ELSE Min(FreeGuids(pl))
\* AllocateGUID succeeds for a GUID of the range that is free or already
\* held by the same (uid, network) key.
AllocateOK(pl, uid, n, g) == g \in Guids /\ pl[g] \in {Free, <<uid, n>>}
AllocateGUID(pl, uid, n, g) == [pl EXCEPT ![g] = <<uid, n>>]
\* InitPool: every GUID of the range that a configured selection entry of
\* an existing workload carries is allocated to that workload and network.
InitPool(anns, live) ==
    [g \in Guids |->
        IF \E p \in live, n \in Networks :
              anns[p].nets[n].present /\ anns[p].nets[n].cfg /\ anns[p].nets[n].guid = g
        THEN CHOOSE k \in live \X Networks :
                 anns[k[1]].nets[k[2]].present /\ anns[k[1]].nets[k[2]].cfg
                 /\ anns[k[1]].nets[k[2]].guid = g
        ELSE Free]
\* ReleaseGUID: frees the GUID; releasing an unknown GUID is a no-op.
ReleaseGUID(pl, g) == IF g \in Guids THEN [pl EXCEPT ![g] = Free] ELSE pl

\* ---------------------------------------------------------- pending maps
UnSafeRemove(m, n) == [k \in (DOMAIN m) \ {n} |-> m[k]]
UnSafeSet(m, n, pods) == [k \in (DOMAIN m) \cup {n} |-> IF k = n THEN pods ELSE m[k]]
Entry(m, n) == IF n \in DOMAIN m THEN m[n] ELSE <<>>
\* The watcher's append: a (workload, network) pair is enqueued once.
Enqueue(m, n, p) ==
    IF p \in SeqToSet(Entry(m, n)) THEN m ELSE UnSafeSet(m, n, Append(Entry(m, n), p))
RECURSIVE EnqueueAll(_, _, _)
EnqueueAll(m, ns, p) ==
    IF ns = {} THEN m
    ELSE LET n == CHOOSE x \in ns : TRUE
         IN  EnqueueAll(Enqueue(m, n, p), ns \ {n}, p)

\* A pod object is reachable only through the map that holds it: once no
\* entry of the map lists the pod, its annotations are no part of the state.
Listed(m) == UNION { SeqToSet(m[n]) : n \in DOMAIN m }
Reachable(anns, m) == [p \in Pods |-> IF p \in Listed(m) THEN anns[p] ELSE NoAnn]

\* --------------------------------------------------------------- history
NoHist == [net |-> NoNet, outcome |-> "none", pre |-> <<>>, allocated |-> {},
           smCalled |-> FALSE, smAdded |-> {}, written |-> {}, notFound |-> {},
           released |-> {}, removeSent |-> {}]
NoPass == [nets |-> {}, seen |-> {}]
StartHist(m, n, o) == [NoHist EXCEPT !.net = n, !.outcome = o, !.pre = Entry(m, n)]

\* A workload that an earlier run of the daemon configured on ibnet.
Recovered == [NoAnn EXCEPT !.nets["ibnet"] = [present |-> TRUE, guid |-> RangeStart, cfg |-> TRUE]]
RecoveredMembers(c) ==
    IF c.kind = "ib" /\ c.pkey # <<>> /\ ParsePKey(c.pkey) # PKeyError
    THEN {<<ParsePKey(c.pkey), RangeStart>>} ELSE {}

\* ------------------------------------------------------------ life cycle
\* NewDaemon's steps in the order of its statements; each one but the last
\* can fail, and a failure returns no daemon.
BootSteps == <<"ReadConfig", "ValidateConfig", "NewPodEventHandler", "NewK8sClient",
               "NewGuidPool", "InitPool", "LoadPlugin", "GetSmClient", "Validate",
               "NewWatcher">>
\* The two constructors that return no error.
CannotFail == {"NewPodEventHandler", "NewWatcher"}
\* life.phase: "boot" while NewDaemon runs, "failed" when it returned an
\* error, "ready" when it returned the daemon, "timers" once Run has started
\* the two wait.Until goroutines, "running" once the watcher runs in the
\* background and Run waits for a signal, "signalled" once the signal
\* arrived, "watcherStopped" after the deferred watcherStopFunc, "stopped"
\* after the deferred close of the stop channel, when Run returns.
Booting == [phase |-> "boot", done |-> <<>>, failedAt |-> "none", sig |-> "none"]
Serving == [phase |-> "running", done |-> BootSteps, failedAt |-> "none", sig |-> "none"]
Signals == {"SIGINT", "SIGTERM"}
\* wait.Until calls the pass again until the stop channel is closed.
TimersAliveForever == TRUE
TimersAlive == life.phase \in {"timers", "running", "signalled", "watcherStopped"}
\* The watcher delivers events between RunBackground and its stop function.
WatcherRuns == life.phase \in {"running", "signalled"}

\* The state NewDaemon leaves: the maps are empty and the pool holds what
\* InitPool recovered from the workloads that exist (none, or workload 1).
Init ==
    /\ \E c \in NadConfigs, old \in SUBSET {1} :
          /\ nad = [n \in Networks |-> IF n = "ibnet" THEN c ELSE Net2Config]
          /\ podState = [p \in Pods |-> IF p \in old THEN "live" ELSE "absent"]
          /\ k8sAnn = [p \in Pods |-> IF p \in old THEN Recovered ELSE NoAnn]
          /\ smMembers = IF old = {} THEN {} ELSE RecoveredMembers(c)
    /\ pool = InitPool(k8sAnn, {p \in Pods : podState[p] = "live"})
    /\ ann = [p \in Pods |-> NoAnn]
    /\ addSet = <<>>
    /\ deleteSet = <<>>
    /\ addPc = "idle" /\ addTodo = {} /\ addCur = NoNet /\ addIdx = 0
    /\ guidList = <<>> /\ passedPods = <<>> /\ failedPods = <<>>
    /\ removedGuidList = <<>>
    /\ delPc = "idle" /\ delTodo = {} /\ delCur = NoNet /\ delIdx = 0
    /\ delGuidList = <<>> /\ delFailedPods = <<>>
    /\ addHist = NoHist /\ delHist = NoHist
    /\ addPass = NoPass
    /\ healthy = FALSE
    /\ life = Serving

\* ------------------------------------------------- watcher and orchestrator
\* A workload is created with a network selection that is not yet marked
\* configured; the watcher appends it to addSet under every network it
\* selects.  The watcher takes the map's lock, so it waits for a running pass.
\* A map's lock is free when no pass holds it: the pass locks the map on
\* entry and the deferred Unlock runs when it returns.
AddMapFreeAlways == TRUE
AddMapFree == addPc = "idle"
DelMapFree == delPc = "idle"
SelectedNetworks(a) == { n \in Networks : a.nets[n].present }
CreatePod(p, shape) ==
    /\ podState[p] = "absent"
    /\ \A q \in Pods : q < p => podState[q] # "absent"
    /\ AddMapFree
    /\ podState' = [podState EXCEPT ![p] = "live"]
    /\ k8sAnn' = [k8sAnn EXCEPT ![p] = shape]
    /\ ann' = [ann EXCEPT ![p] = shape]
    /\ addSet' = EnqueueAll(addSet, SelectedNetworks(shape), p)
    /\ UNCHANGED <<nad, healthy, life, deleteSet, pool, smMembers, addVars, delVars>>

\* The workload is deleted at the orchestrator.  The watcher's delete event
\* appends a workload that was marked configured to deleteSet under the
\* networks it selects; it takes the map's lock.
WasConfigured(a) == a.ok /\ \E n \in Networks : a.nets[n].present /\ a.nets[n].cfg
DeletePod(p) ==
    /\ podState[p] = "live"
    /\ podState' = [podState EXCEPT ![p] = "deleted"]
    /\ IF WasConfigured(k8sAnn[p])
       THEN /\ DelMapFree
            /\ deleteSet' = EnqueueAll(deleteSet, SelectedNetworks(k8sAnn[p]), p)
            /\ k8sAnn' = k8sAnn
       ELSE /\ deleteSet' = deleteSet
            /\ k8sAnn' = [k8sAnn EXCEPT ![p] = NoAnn]
    /\ UNCHANGED <<nad, healthy, life, ann, addSet, pool, smMembers, addVars, delVars>>

\* ---------------------------------------------------------------- add pass
\* The pass takes the lock and ranges over the entries of the map.
AddStart ==
    /\ addPc = "idle"
    /\ DOMAIN addSet # {}
    /\ addPc' = "fetch"
    /\ addTodo' = DOMAIN addSet
    /\ addPass' = [nets |-> DOMAIN addSet, seen |-> {}]
    /\ UNCHANGED <<envVars, ann, addSet, deleteSet, pool, smMembers, addCur, addIdx,
                   guidList, passedPods, failedPods, removedGuidList, addHist, delVars>>

\* The range is over: the deferred Unlock runs.
AddEnd ==
    /\ addPc = "fetch" /\ addTodo = {}
    /\ addPc' = "idle"
    /\ addHist' = NoHist
    /\ addPass' = NoPass
    /\ UNCHANGED <<envVars, ann, addSet, deleteSet, pool, smMembers, addTodo, addCur,
                   addIdx, guidList, passedPods, failedPods, removedGuidList, delVars>>

\* The networks the range still has to visit once the iteration of n ends.
AddRestOfRangeNone(todo, n) == {}
AddRestOfRange(todo, n) == todo \ {n}

\* `continue`: on to the next network of the range, the entry left as it is.
AddContinue(n, hist) ==
    /\ addPc' = "fetch"
    /\ addTodo' = AddRestOfRange(addTodo, n)
    /\ addPass' = [addPass EXCEPT !.seen = @ \cup {n}]
    /\ addCur' = NoNet /\ addIdx' = 0
    /\ guidList' = <<>> /\ passedPods' = <<>> /\ failedPods' = <<>>
    /\ removedGuidList' = <<>>
    /\ addHist' = hist

AddPick(n) == addPc = "fetch" /\ n \in addTodo /\ Len(Entry(addSet, n)) # 0

\* GetNetworkAttachmentDefinition fails.
AddFetchError(n) ==
    /\ AddPick(n)
    /\ AddContinue(n, StartHist(addSet, n, "fetchError"))
    /\ UNCHANGED <<envVars, ann, addSet, deleteSet, pool, smMembers, delVars>>

\* What the pass does to addSet when json.Unmarshal fails: `continue`.
AddAfterParseErrorRemoved(m, n) == UnSafeRemove(m, n)
AddAfterParseError(m, n) == m

\* json.Unmarshal of the config fails.
AddParseError(n) ==
    /\ AddPick(n)
    /\ ~JsonUnmarshalOK(nad[n])
    /\ addSet' = AddAfterParseError(addSet, n)
    /\ ann' = Reachable(ann, addSet')
    /\ AddContinue(n, StartHist(addSet, n, "parseError"))
    /\ UNCHANGED <<envVars, deleteSet, pool, smMembers, delVars>>

\* GetIbSriovCniFromNetwork fails: the entry is removed.
AddNotIbSriov(n) ==
    /\ AddPick(n)
    /\ JsonUnmarshalOK(nad[n]) /\ ~GetIbSriovCniFromNetworkOK(nad[n])
    /\ addSet' = UnSafeRemove(addSet, n)
    /\ ann' = Reachable(ann, addSet')
    /\ AddContinue(n, StartHist(addSet, n, "notIb"))
    /\ UNCHANGED <<envVars, deleteSet, pool, smMembers, delVars>>

\* The network is an ib-sriov one: the loop over its pods starts.
AddBegin(n) ==
    /\ AddPick(n)
    /\ GetIbSriovCniFromNetworkOK(nad[n])
    /\ addPc' = "alloc"
    /\ addCur' = n /\ addIdx' = 1
    /\ guidList' = <<>> /\ passedPods' = <<>> /\ failedPods' = <<>>
    /\ removedGuidList' = <<>>
    /\ addHist' = StartHist(addSet, n, "running")
    /\ UNCHANGED <<envVars, ann, addSet, deleteSet, pool, smMembers, addTodo, addPass,
                   delVars>>

\* The generated GUID is set on the selection entry and the annotations of
\* the pod object are serialized again.
WriteGuidBackSkipped(a, n, g) == a
WriteGuidBack(a, n, g) == SetPodNetworkGuid(a, n, g)

\* The body of the loop over the pods of the network, for pod p with the
\* annotations a and the pool pl: the GUID resolved for p and what the
\* resolution leaves in the pool and in the pod's annotations.
PodFailed(pl, a) == [ok |-> FALSE, guid |-> NoGuid, ann |-> a, pool |-> pl]
ResolvePodGuidGenerated(pl, a, p, n) ==
    IF ~ParsePodNetworkAnnotation(a) THEN PodFailed(pl, a)
    ELSE IF ~GetPodNetwork(a, n).present THEN PodFailed(pl, a)
    ELSE LET generated == GenerateGUID(pl)
         IN  IF generated = NoGuid THEN PodFailed(pl, a)
             ELSE IF ~AllocateOK(pl, p, n, generated) THEN PodFailed(pl, a)
             ELSE [ok |-> TRUE, guid |-> generated,
                   ann |-> WriteGuidBack(a, n, generated),
                   pool |-> AllocateGUID(pl, p, n, generated)]
ResolvePodGuid(pl, a, p, n) ==
    IF ~ParsePodNetworkAnnotation(a) THEN PodFailed(pl, a)
    ELSE IF ~GetPodNetwork(a, n).present THEN PodFailed(pl, a)
    ELSE LET allocatedGuid == GetPodNetworkGuid(GetPodNetwork(a, n))
             generated == GenerateGUID(pl)
         IN  IF allocatedGuid # NoGuid
             THEN \* the selection entry carries a GUID already
                  IF AllocateOK(pl, p, n, allocatedGuid)
                  THEN [ok |-> TRUE, guid |-> allocatedGuid, ann |-> a,
                        pool |-> AllocateGUID(pl, p, n, allocatedGuid)]
                  ELSE PodFailed(pl, a)
             ELSE IF generated = NoGuid THEN PodFailed(pl, a)
             ELSE IF ~AllocateOK(pl, p, n, generated) THEN PodFailed(pl, a)
             ELSE [ok |-> TRUE, guid |-> generated,
                   ann |-> WriteGuidBack(a, n, generated),
                   pool |-> AllocateGUID(pl, p, n, generated)]

AddAllocPod ==
    /\ addPc = "alloc" /\ addIdx <= Len(addSet[addCur])
    /\ LET pod == addSet[addCur][addIdx]
           r == ResolvePodGuid(pool, ann[pod], pod, addCur)
       IN  /\ pool' = r.pool
           /\ ann' = [ann EXCEPT ![pod] = r.ann]
           /\ guidList' = IF r.ok THEN Append(guidList, r.guid) ELSE guidList
           /\ passedPods' = IF r.ok THEN Append(passedPods, pod) ELSE passedPods
           /\ failedPods' = IF r.ok THEN failedPods ELSE Append(failedPods, pod)
           /\ addHist' = IF r.ok
                         THEN [addHist EXCEPT !.allocated = @ \cup {r.guid}]
                         ELSE addHist
    /\ addIdx' = addIdx + 1
    /\ UNCHANGED <<envVars, addSet, deleteSet, smMembers, addPc, addTodo, addCur,
                   removedGuidList, addPass, delVars>>

\* The loop over the pods is over.
AddAllocDone == addPc = "alloc" /\ addIdx > Len(addSet[addCur])
\* `ibCniSpec.PKey != "" && len(guidList) != 0`
AddWantsPKey == nad[addCur].pkey # <<>> /\ Len(guidList) # 0

AddToCommit ==
    /\ addPc' = "commit"
    /\ addIdx' = 1
    /\ UNCHANGED <<addTodo, addCur, guidList, passedPods, failedPods, removedGuidList,
                   addPass>>

\* No PKey to program: straight to the annotations.
AddNoPKey ==
    /\ AddAllocDone /\ ~AddWantsPKey
    /\ AddToCommit
    /\ UNCHANGED <<envVars, ann, addSet, deleteSet, pool, smMembers, addHist, delVars>>

\* What the pass does to addSet when ParsePKey fails: `continue`.
AddAfterPKeyErrorRemoved(m, n) == UnSafeRemove(m, n)
AddAfterPKeyError(m, n) == m

\* ParsePKey fails.
AddPKeyError ==
    /\ AddAllocDone /\ AddWantsPKey
    /\ ParsePKey(nad[addCur].pkey) = PKeyError
    /\ addSet' = AddAfterPKeyError(addSet, addCur)
    /\ ann' = Reachable(ann, addSet')
    /\ AddContinue(addCur, [addHist EXCEPT !.outcome = "pkeyError"])
    /\ UNCHANGED <<envVars, deleteSet, pool, smMembers, delVars>>

\* What the pass does to addSet when AddGuidsToPKey fails: `continue`.
AddAfterSMErrorRetained(m, n, failed) ==
    IF Len(failed) = 0 THEN UnSafeRemove(m, n) ELSE UnSafeSet(m, n, failed)
AddAfterSMError(m, n, failed) == m

\* AddGuidsToPKey returns an error.
AddSMError ==
    /\ AddAllocDone /\ AddWantsPKey
    /\ ParsePKey(nad[addCur].pkey) # PKeyError
    /\ addSet' = AddAfterSMError(addSet, addCur, failedPods)
    /\ ann' = Reachable(ann, addSet')
    /\ AddContinue(addCur, [addHist EXCEPT !.outcome = "smError", !.smCalled = TRUE])
    /\ UNCHANGED <<envVars, deleteSet, pool, smMembers, delVars>>

\* The batch AddGuidsToPKey is called with: guidList.
AddBatchShort(gl) == SeqToSet(Tail(gl))
AddBatch(gl) == SeqToSet(gl)

\* AddGuidsToPKey admits the whole batch.
AddSMSuccess ==
    /\ AddAllocDone /\ AddWantsPKey
    /\ ParsePKey(nad[addCur].pkey) # PKeyError
    /\ smMembers' = smMembers \cup
          { <<ParsePKey(nad[addCur].pkey), g>> : g \in AddBatch(guidList) }
    /\ addHist' = [addHist EXCEPT !.smCalled = TRUE, !.smAdded = AddBatch(guidList)]
    /\ AddToCommit
    /\ UNCHANGED <<envVars, ann, addSet, deleteSet, pool, delVars>>

\* The loop over passedPods: the marker is set on the pod object and the
\* annotations are written to the orchestrator.
AddCommitting == addPc = "commit" /\ addIdx <= Len(passedPods)
AddCommitStep ==
    /\ addIdx' = addIdx + 1
    /\ UNCHANGED <<nad, podState, healthy, life, addSet, deleteSet, smMembers, addPc, addTodo, addCur,
                   guidList, passedPods, addPass, delVars>>

\* SetAnnotationsOnPod succeeds.
AddCommitOK ==
    /\ AddCommitting
    /\ LET pod == passedPods[addIdx]
           marked == SetConfigured(ann[pod], addCur)
       IN  /\ podState[pod] = "live"
           /\ ann' = [ann EXCEPT ![pod] = marked]
           /\ k8sAnn' = [k8sAnn EXCEPT ![pod] = marked]
           /\ addHist' = [addHist EXCEPT !.written = @ \cup {pod}]
    /\ AddCommitStep
    /\ UNCHANGED <<pool, failedPods, removedGuidList>>

\* SetAnnotationsOnPod fails with an error that is not "not found".
AddCommitError ==
    /\ AddCommitting
    /\ LET pod == passedPods[addIdx]
       IN  /\ ann' = [ann EXCEPT ![pod] = SetConfigured(ann[pod], addCur)]
           /\ failedPods' = Append(failedPods, pod)
    /\ AddCommitStep
    /\ UNCHANGED <<k8sAnn, pool, removedGuidList, addHist>>

\* SetAnnotationsOnPod fails with "not found": the pod is gone.
AddCommitNotFound ==
    /\ AddCommitting
    /\ LET pod == passedPods[addIdx]
       IN  /\ podState[pod] # "live"
           /\ ann' = [ann EXCEPT ![pod] = SetConfigured(ann[pod], addCur)]
           /\ pool' = ReleaseGUID(pool, guidList[addIdx])
           /\ removedGuidList' = Append(removedGuidList, guidList[addIdx])
           /\ addHist' = [addHist EXCEPT !.notFound = @ \cup {pod},
                                         !.released = @ \cup {guidList[addIdx]}]
    /\ AddCommitStep
    /\ UNCHANGED <<k8sAnn, failedPods>>

\* The loop over passedPods is over.
AddCommitDone == addPc = "commit" /\ addIdx > Len(passedPods)
\* `ibCniSpec.PKey != "" && len(removedGuidList) != 0`
AddWantsRemove == nad[addCur].pkey # <<>> /\ Len(removedGuidList) # 0

\* `if len(failedPods) == 0 { UnSafeRemove } else { UnSafeSet }`
AddRetentionKept(m, n, failed) == m
AddRetention(m, n, failed) ==
    IF Len(failed) = 0 THEN UnSafeRemove(m, n) ELSE UnSafeSet(m, n, failed)

\* What the pass does to addSet when RemoveGuidsFromPKey fails: `continue`.
AddAfterRemoveError(m, n, failed) == m

\* RemoveGuidsFromPKey of the removed pods' GUIDs fails.
AddRemoveError ==
    /\ AddCommitDone /\ AddWantsRemove
    /\ addSet' = AddAfterRemoveError(addSet, addCur, failedPods)
    /\ ann' = Reachable(ann, addSet')
    /\ AddContinue(addCur, [addHist EXCEPT !.outcome = "removeError",
                                           !.removeSent = SeqToSet(removedGuidList)])
    /\ UNCHANGED <<envVars, deleteSet, pool, smMembers, delVars>>

\* RemoveGuidsFromPKey succeeds, then the entry is removed or replaced.
AddRemoveOK ==
    /\ AddCommitDone /\ AddWantsRemove
    /\ smMembers' = smMembers \
          { <<ParsePKey(nad[addCur].pkey), g>> : g \in SeqToSet(removedGuidList) }
    /\ addSet' = AddRetention(addSet, addCur, failedPods)
    /\ ann' = Reachable(ann, addSet')
    /\ AddContinue(addCur, [addHist EXCEPT !.outcome = "retained",
                                           !.removeSent = SeqToSet(removedGuidList)])
    /\ UNCHANGED <<envVars, deleteSet, pool, delVars>>

\* Nothing to withdraw: the entry is removed or replaced.
AddRetain ==
    /\ AddCommitDone /\ ~AddWantsRemove
    /\ addSet' = AddRetention(addSet, addCur, failedPods)
    /\ ann' = Reachable(ann, addSet')
    /\ AddContinue(addCur, [addHist EXCEPT !.outcome = "retained"])
    /\ UNCHANGED <<envVars, deleteSet, pool, smMembers, delVars>>

\* ------------------------------------------------------------- delete pass
DelStart ==
    /\ delPc = "idle"
    /\ DOMAIN deleteSet # {}
    /\ delPc' = "fetch"
    /\ delTodo' = DOMAIN deleteSet
    /\ UNCHANGED <<envVars, ann, addSet, deleteSet, pool, smMembers, addVars, delCur,
                   delIdx, delGuidList, delFailedPods, delHist>>

DelEnd ==
    /\ delPc = "fetch" /\ delTodo = {}
    /\ delPc' = "idle"
    /\ delHist' = NoHist
    /\ UNCHANGED <<envVars, ann, addSet, deleteSet, pool, smMembers, addVars, delTodo,
                   delCur, delIdx, delGuidList, delFailedPods>>

\* `continue`: on to the next network, the entry left as it is.
DelContinue(n, hist) ==
    /\ delPc' = "fetch"
    /\ delTodo' = delTodo \ {n}
    /\ delCur' = NoNet /\ delIdx' = 0
    /\ delGuidList' = <<>> /\ delFailedPods' = <<>>
    /\ delHist' = hist

DelPick(n) == delPc = "fetch" /\ n \in delTodo /\ Len(Entry(deleteSet, n)) # 0

\* GetNetworkAttachmentDefinition fails.
DelFetchError(n) ==
    /\ DelPick(n)
    /\ DelContinue(n, StartHist(deleteSet, n, "fetchError"))
    /\ UNCHANGED <<envVars, ann, addSet, deleteSet, pool, smMembers, addVars>>

\* json.Unmarshal or GetIbSriovCniFromNetwork fails: the entry stays.
DelParseError(n) ==
    /\ DelPick(n)
    /\ ~(JsonUnmarshalOK(nad[n]) /\ GetIbSriovCniFromNetworkOK(nad[n]))
    /\ DelContinue(n, StartHist(deleteSet, n, "parseError"))
    /\ UNCHANGED <<envVars, ann, addSet, deleteSet, pool, smMembers, addVars>>

\* The body of the loop over the pods of the network, for annotations a:
\* "failed", "skip" (the network is not marked configured) or "guid".
DeletePodResultEager(a, n) ==
    IF ~ParsePodNetworkAnnotation(a) THEN "failed"
    ELSE IF ~GetPodNetwork(a, n).present THEN "failed"
    ELSE IF GetPodNetworkGuid(GetPodNetwork(a, n)) = NoGuid THEN "failed"
    ELSE IF ~ParseMAC(GetPodNetworkGuid(GetPodNetwork(a, n))) THEN "failed"
    ELSE "guid"
DeletePodResult(a, n) ==
    IF ~ParsePodNetworkAnnotation(a) THEN "failed"
    ELSE IF ~GetPodNetwork(a, n).present THEN "failed"
    ELSE IF ~IsPodNetworkConfiguredWithInfiniBand(GetPodNetwork(a, n)) THEN "skip"
    ELSE IF GetPodNetworkGuid(GetPodNetwork(a, n)) = NoGuid THEN "failed"
    ELSE IF ~ParseMAC(GetPodNetworkGuid(GetPodNetwork(a, n))) THEN "failed"
    ELSE "guid"

RECURSIVE DeleteGuidList(_, _, _)
DeleteGuidList(pods, anns, n) ==
    IF pods = <<>> THEN <<>>
    ELSE (IF DeletePodResult(anns[Head(pods)], n) = "guid"
          THEN <<GetPodNetworkGuid(GetPodNetwork(anns[Head(pods)], n))>>
          ELSE <<>>) \o DeleteGuidList(Tail(pods), anns, n)

RECURSIVE DeleteFailedPods(_, _, _)
DeleteFailedPods(pods, anns, n) ==
    IF pods = <<>> THEN <<>>
    ELSE (IF DeletePodResult(anns[Head(pods)], n) = "failed"
          THEN <<Head(pods)>> ELSE <<>>) \o DeleteFailedPods(Tail(pods), anns, n)

\* The network is an ib-sriov one: the loop over its pods collects the
\* GUIDs to withdraw and the pods that failed.
DelBegin(n) ==
    /\ DelPick(n)
    /\ JsonUnmarshalOK(nad[n]) /\ GetIbSriovCniFromNetworkOK(nad[n])
    /\ delPc' = "sm"
    /\ delCur' = n /\ delIdx' = 0
    /\ delGuidList' = DeleteGuidList(deleteSet[n], k8sAnn, n)
    /\ delFailedPods' = DeleteFailedPods(deleteSet[n], k8sAnn, n)
    /\ delHist' = StartHist(deleteSet, n, "running")
    /\ UNCHANGED <<envVars, ann, addSet, deleteSet, pool, smMembers, addVars, delTodo>>

\* `ibCniSpec.PKey != "" && len(guidList) != 0`
DelWantsPKey == nad[delCur].pkey # <<>> /\ Len(delGuidList) # 0

DelToRelease ==
    /\ delPc' = "release"
    /\ delIdx' = 1
    /\ UNCHANGED <<delTodo, delCur, delGuidList, delFailedPods>>

DelNoPKey ==
    /\ delPc = "sm" /\ ~DelWantsPKey
    /\ DelToRelease
    /\ UNCHANGED <<envVars, ann, addSet, deleteSet, pool, smMembers, addVars, delHist>>

\* ParsePKey fails.
DelPKeyError ==
    /\ delPc = "sm" /\ DelWantsPKey
    /\ ParsePKey(nad[delCur].pkey) = PKeyError
    /\ DelContinue(delCur, [delHist EXCEPT !.outcome = "pkeyError"])
    /\ UNCHANGED <<envVars, ann, addSet, deleteSet, pool, smMembers, addVars>>

\* RemoveGuidsFromPKey returns an error.
DelSMError ==
    /\ delPc = "sm" /\ DelWantsPKey
    /\ ParsePKey(nad[delCur].pkey) # PKeyError
    /\ DelContinue(delCur, [delHist EXCEPT !.outcome = "smError", !.smCalled = TRUE])
    /\ UNCHANGED <<envVars, ann, addSet, deleteSet, pool, smMembers, addVars>>

\* The batch RemoveGuidsFromPKey is called with: guidList.
DeleteBatchShort(gl) == SeqToSet(Tail(gl))
DeleteBatch(gl) == SeqToSet(gl)

\* RemoveGuidsFromPKey withdraws the whole batch.
DelSMSuccess ==
    /\ delPc = "sm" /\ DelWantsPKey
    /\ ParsePKey(nad[delCur].pkey) # PKeyError
    /\ smMembers' = smMembers \
          { <<ParsePKey(nad[delCur].pkey), g>> : g \in DeleteBatch(delGuidList) }
    /\ delHist' = [delHist EXCEPT !.smCalled = TRUE, !.removeSent = DeleteBatch(delGuidList)]
    /\ DelToRelease
    /\ UNCHANGED <<envVars, ann, addSet, deleteSet, pool, addVars>>

\* What one turn of the loop over guidList does to the pool.
ReleaseBatchGuidSkipped(pl, g) == pl
ReleaseBatchGuid(pl, g) == ReleaseGUID(pl, g)

\* The loop over guidList: one ReleaseGUID.
DelReleaseGuid ==
    /\ delPc = "release" /\ delIdx <= Len(delGuidList)
    /\ pool' = ReleaseBatchGuid(pool, delGuidList[delIdx])
    /\ delIdx' = delIdx + 1
    /\ delHist' = [delHist EXCEPT !.released = @ \cup {delGuidList[delIdx]}]
    /\ UNCHANGED <<envVars, ann, addSet, deleteSet, smMembers, addVars, delPc, delTodo,
                   delCur, delGuidList, delFailedPods>>

\* `if len(failedPods) == 0 { UnSafeRemove } else { UnSafeSet }`
DeleteRetention(m, n, failed) ==
    IF Len(failed) = 0 THEN UnSafeRemove(m, n) ELSE UnSafeSet(m, n, failed)

DelRetain ==
    /\ delPc = "release" /\ delIdx > Len(delGuidList)
    /\ deleteSet' = DeleteRetention(deleteSet, delCur, delFailedPods)
    /\ k8sAnn' = [p \in Pods |-> IF podState[p] = "deleted" /\ p \notin Listed(deleteSet')
                                 THEN NoAnn ELSE k8sAnn[p]]
    /\ DelContinue(delCur, [delHist EXCEPT !.outcome = "retained"])
    /\ UNCHANGED <<nad, podState, healthy, life, ann, addSet, pool, smMembers, addVars>>

\* ------------------------------------------------------------ specification
Next ==
    \/ \E p \in Pods, shape \in PodShapes : CreatePod(p, shape)
    \/ \E p \in Pods : DeletePod(p)
    \/ AddStart
    \/ AddEnd
    \/ \E n \in Networks : AddFetchError(n)
    \/ \E n \in Networks : AddParseError(n)
    \/ \E n \in Networks : AddNotIbSriov(n)
    \/ \E n \in Networks : AddBegin(n)
    \/ AddAllocPod
    \/ AddNoPKey
    \/ AddPKeyError
    \/ AddSMError
    \/ AddSMSuccess
    \/ AddCommitOK
    \/ AddCommitError
    \/ AddCommitNotFound
    \/ AddRemoveError
    \/ AddRemoveOK
    \/ AddRetain
    \/ DelStart
    \/ DelEnd
    \/ \E n \in Networks : DelFetchError(n)
    \/ \E n \in Networks : DelParseError(n)
    \/ \E n \in Networks : DelBegin(n)
    \/ DelNoPKey
    \/ DelPKeyError
    \/ DelSMError
    \/ DelSMSuccess
    \/ DelReleaseGuid
    \/ DelRetain

Spec == Init /\ [][Next]_vars

\* --------------------------------------- specification with two networks
\* Two workloads, each selecting ibnet, net2 or both; net2 is an ib-sriov
\* network with PKey 0x0006, ibnet has any of the configs of NadConfigs.
NetsPods == {1, 2}
NetsConfig == [kind |-> "ib", pkey |-> <<0, 0, 0, 6>>]
Selecting(S) == [n \in Networks |-> IF n \in S THEN NewEntry(NoGuid) ELSE Absent]
NetsPodShapes ==
    { [ok |-> TRUE, nets |-> Selecting(S)] : S \in (SUBSET Networks) \ {{}} }
    \cup { [ok |-> FALSE, nets |-> Selecting(Networks)] }

NetsNadConfigs ==
    { [kind |-> "malformed", pkey |-> <<>>] }
    \cup { [kind |-> "ib", pkey |-> d] : d \in { <<0, 0, 0, 5>>, <<7, 15, 15, 15>> } }

InitNets ==
    /\ \E c \in NetsNadConfigs :
          nad = [n \in Networks |-> IF n = "ibnet" THEN c ELSE NetsConfig]
    /\ podState = [p \in Pods |-> "absent"]
    /\ k8sAnn = [p \in Pods |-> NoAnn]
    /\ smMembers = {}
    /\ pool = InitPool(k8sAnn, {})
    /\ ann = [p \in Pods |-> NoAnn]
    /\ addSet = <<>>
    /\ deleteSet = <<>>
    /\ addPc = "idle" /\ addTodo = {} /\ addCur = NoNet /\ addIdx = 0
    /\ guidList = <<>> /\ passedPods = <<>> /\ failedPods = <<>>
    /\ removedGuidList = <<>>
    /\ delPc = "idle" /\ delTodo = {} /\ delCur = NoNet /\ delIdx = 0
    /\ delGuidList = <<>> /\ delFailedPods = <<>>
    /\ addHist = NoHist /\ delHist = NoHist
    /\ addPass = NoPass
    /\ healthy = FALSE
    /\ life = Serving

\* The add pass, the watcher and the orchestrator.
NextNets ==
    \/ \E p \in NetsPods, shape \in NetsPodShapes : CreatePod(p, shape)
    \/ \E p \in NetsPods : DeletePod(p)
    \/ AddStart
    \/ AddEnd
    \/ \E n \in Networks : AddFetchError(n)
    \/ \E n \in Networks : AddParseError(n)
    \/ \E n \in Networks : AddBegin(n)
    \/ AddAllocPod
    \/ AddNoPKey
    \/ AddPKeyError
    \/ AddSMError
    \/ AddSMSuccess
    \/ AddCommitOK
    \/ AddCommitError
    \/ AddCommitNotFound
    \/ AddRemoveError
    \/ AddRemoveOK
    \/ AddRetain

SpecNets == InitNets /\ [][NextNets]_vars

\* ------------------------------- specification with fair periodic passes
\* Two workloads on ibnet.  The collaborators (orchestrator, subnet manager)
\* may fail any call until Heal; from then on every call succeeds.  The
\* timers of wait.Until fire again and again: each pass is weakly fair.
FairPods == {1, 2}
Heal ==
    /\ ~healthy
    /\ healthy' = TRUE
    /\ UNCHANGED <<nad, podState, k8sAnn, life, ann, addSet, deleteSet, pool,
                   smMembers, addVars, delVars>>

AddPassStep ==
    \/ AddStart
    \/ AddEnd
    \/ \E n \in Networks : AddParseError(n)
    \/ \E n \in Networks : AddNotIbSriov(n)
    \/ \E n \in Networks : AddBegin(n)
    \/ AddAllocPod
    \/ AddNoPKey
    \/ AddPKeyError
    \/ AddSMSuccess
    \/ AddCommitOK
    \/ AddCommitNotFound
    \/ AddRemoveOK
    \/ AddRetain
AddPassFailure ==
    /\ ~healthy
    /\ \/ \E n \in Networks : AddFetchError(n)
       \/ AddSMError
       \/ AddCommitError
       \/ AddRemoveError
DelPassStep ==
    \/ DelStart
    \/ DelEnd
    \/ \E n \in Networks : DelParseError(n)
    \/ \E n \in Networks : DelBegin(n)
    \/ DelNoPKey
    \/ DelPKeyError
    \/ DelSMSuccess
    \/ DelReleaseGuid
    \/ DelRetain
DelPassFailure ==
    /\ ~healthy
    /\ \/ \E n \in Networks : DelFetchError(n)
       \/ DelSMError

NextLive ==
    \/ \E p \in FairPods, shape \in PodShapes : CreatePod(p, shape)
    \/ \E p \in FairPods : DeletePod(p)
    \/ Heal
    \/ AddPassStep
    \/ AddPassFailure
    \/ DelPassStep
    \/ DelPassFailure

SpecLive ==
    /\ Init
    /\ [][NextLive]_vars
    /\ WF_vars(AddPassStep)
    /\ WF_vars(DelPassStep)

\* ------------------------------------ specification of the life cycle
\* NewDaemon from its first statement, then Run, the signal and the stop.
\* Two workloads on ibnet; every call of a pass may fail.  The goroutine of
\* a pass that has started keeps running: its steps are weakly fair.
InitRun ==
    /\ \E c \in NadConfigs, old \in SUBSET {1} :
          /\ nad = [n \in Networks |-> IF n = "ibnet" THEN c ELSE Net2Config]
          /\ podState = [p \in Pods |-> IF p \in old THEN "live" ELSE "absent"]
          /\ k8sAnn = [p \in Pods |-> IF p \in old THEN Recovered ELSE NoAnn]
          /\ smMembers = IF old = {} THEN {} ELSE RecoveredMembers(c)
    /\ pool = [g \in Guids |-> Free]
    /\ ann = [p \in Pods |-> NoAnn]
    /\ addSet = <<>>
    /\ deleteSet = <<>>
    /\ addPc = "idle" /\ addTodo = {} /\ addCur = NoNet /\ addIdx = 0
    /\ guidList = <<>> /\ passedPods = <<>> /\ failedPods = <<>>
    /\ removedGuidList = <<>>
    /\ delPc = "idle" /\ delTodo = {} /\ delCur = NoNet /\ delIdx = 0
    /\ delGuidList = <<>> /\ delFailedPods = <<>>
    /\ addHist = NoHist /\ delHist = NoHist
    /\ addPass = NoPass
    /\ healthy = FALSE
    /\ life = Booting

NextBootStep == BootSteps[Len(life.done) + 1]
\* A step of NewDaemon that succeeds; InitPool fills the pool from the
\* workloads that exist, the last step returns the daemon.
BootOK ==
    /\ life.phase = "boot"
    /\ life' = [life EXCEPT !.done = Append(@, NextBootStep),
                            !.phase = IF Len(life.done) + 1 = Len(BootSteps)
                                      THEN "ready" ELSE "boot"]
    /\ pool' = IF NextBootStep = "InitPool"
               THEN InitPool(k8sAnn, {p \in Pods : podState[p] = "live"})
               ELSE pool
    /\ UNCHANGED <<nad, podState, k8sAnn, healthy, ann, addSet, deleteSet,
                   smMembers, addVars, delVars>>
\* A step of NewDaemon that fails: return nil, err.
AfterBootFailureGoesOn(l, s) == [l EXCEPT !.failedAt = s]
AfterBootFailure(l, s) == [l EXCEPT !.phase = "failed", !.failedAt = s]
BootFail ==
    /\ life.phase = "boot"
    /\ NextBootStep \notin CannotFail
    /\ life' = AfterBootFailure(life, NextBootStep)
    /\ UNCHANGED <<nad, podState, k8sAnn, healthy, ann, addSet, deleteSet, pool,
                   smMembers, addVars, delVars>>
LifeStep(from, to) ==
    /\ life.phase = from
    /\ life' = [life EXCEPT !.phase = to]
    /\ UNCHANGED <<nad, podState, k8sAnn, healthy, ann, addSet, deleteSet, pool,
                   smMembers, addVars, delVars>>
\* Run starts the two wait.Until goroutines, then the watcher.
RunTimers == LifeStep("ready", "timers")
RunWatcher == LifeStep("timers", "running")
\* Run blocks until an interrupt or termination signal arrives.
Signal ==
    /\ life.phase = "running"
    /\ \E s \in Signals : life' = [life EXCEPT !.phase = "signalled", !.sig = s]
    /\ UNCHANGED <<nad, podState, k8sAnn, healthy, ann, addSet, deleteSet, pool,
                   smMembers, addVars, delVars>>
\* The deferred calls run last-in first-out: the watcher's stop function,
\* then the close of the stop channel.
StopWatcher == LifeStep("signalled", "watcherStopped")
CloseStop == LifeStep("watcherStopped", "stopped")

\* The steps of a pass that is in flight.
AddInFlight ==
    \/ AddEnd
    \/ \E n \in Networks : AddFetchError(n)
    \/ \E n \in Networks : AddParseError(n)
    \/ \E n \in Networks : AddNotIbSriov(n)
    \/ \E n \in Networks : AddBegin(n)
    \/ AddAllocPod
    \/ AddNoPKey
    \/ AddPKeyError
    \/ AddSMError
    \/ AddSMSuccess
    \/ AddCommitOK
    \/ AddCommitError
    \/ AddCommitNotFound
    \/ AddRemoveError
    \/ AddRemoveOK
    \/ AddRetain
DelInFlight ==
    \/ DelEnd
    \/ \E n \in Networks : DelFetchError(n)
    \/ \E n \in Networks : DelParseError(n)
    \/ \E n \in Networks : DelBegin(n)
    \/ DelNoPKey
    \/ DelPKeyError
    \/ DelSMError
    \/ DelSMSuccess
    \/ DelReleaseGuid
    \/ DelRetain

NextRun ==
    \/ BootOK
    \/ BootFail
    \/ RunTimers
    \/ RunWatcher
    \/ Signal
    \/ StopWatcher
    \/ CloseStop
    \/ WatcherRuns /\ \E p \in FairPods, shape \in PodShapes : CreatePod(p, shape)
    \/ WatcherRuns /\ \E p \in FairPods : DeletePod(p)
    \/ TimersAlive /\ AddStart
    \/ TimersAlive /\ DelStart
    \/ AddInFlight
    \/ DelInFlight

SpecRun ==
    /\ InitRun
    /\ [][NextRun]_vars
    /\ WF_vars(AddInFlight)
    /\ WF_vars(DelInFlight)

\* ----------------------- specification with user-supplied GUIDs at large
\* Two workloads on ibnet whose selection entry carries no GUID, any GUID of
\* the pool's range, or a GUID outside the range.
UserPodShapes ==
    { [NoAnn EXCEPT !.nets["ibnet"] = NewEntry(g)] :
          g \in {NoGuid} \cup Guids \cup {RangeEnd + 1} }
NextUser ==
    \/ \E p \in FairPods, shape \in UserPodShapes : CreatePod(p, shape)
    \/ \E p \in FairPods : DeletePod(p)
    \/ AddStart
    \/ AddInFlight
    \/ DelStart
    \/ DelInFlight

SpecUser == Init /\ [][NextUser]_vars

\* ------------------ specification with step failures after the allocation
\* Two workloads on ibnet.  Besides the failures of the collaborators, a
\* step of the loop over the pods that follows AllocateGUID may fail.
\* The step after AllocateGUID fails (net.ParseMAC for a GUID the entry
\* carried; SetPodNetworkGuid or json.Marshal for a generated GUID): the
\* pod joins failedPods, the GUID stays allocated, and pod.Annotations has
\* not been assigned.
AddAllocStepFails ==
    /\ addPc = "alloc" /\ addIdx <= Len(addSet[addCur])
    /\ LET pod == addSet[addCur][addIdx]
           r == ResolvePodGuid(pool, ann[pod], pod, addCur)
       IN  /\ r.ok
           /\ pool' = r.pool
           /\ failedPods' = Append(failedPods, pod)
    /\ addIdx' = addIdx + 1
    /\ UNCHANGED <<envVars, ann, addSet, deleteSet, smMembers, addPc, addTodo, addCur,
                   guidList, passedPods, removedGuidList, addHist, addPass, delVars>>

NextRetry ==
    \/ \E p \in FairPods, shape \in PodShapes : CreatePod(p, shape)
    \/ \E p \in FairPods : DeletePod(p)
    \/ AddStart
    \/ AddInFlight
    \/ AddAllocStepFails
    \/ DelStart
    \/ DelInFlight

SpecRetry == Init /\ [][NextRetry]_vars

\* ------------------------------- specification of the delete pass alone
\* The delete pass on a deleteSet entry of three deleted workloads whose
\* annotations range over every case the loop over the pods tells apart.
DelEntryShapes ==
    { Absent }
    \cup { [present |-> TRUE, guid |-> g, cfg |-> FALSE] : g \in {NoGuid} \cup Guids }
    \cup { [present |-> TRUE, guid |-> g, cfg |-> TRUE] : g \in {NoGuid, BadGuid} \cup Guids }
DelPodShapes ==
    { [ok |-> FALSE, nets |-> NoAnn.nets] }
    \cup { [NoAnn EXCEPT !.nets["ibnet"] = e] : e \in DelEntryShapes }
\* The GUID of the range a workload's ibnet entry carries, if any.
HeldGuid(a) == IF a.nets["ibnet"].guid \in Guids THEN a.nets["ibnet"].guid ELSE NoGuid
InitDel ==
    /\ \E c \in NadConfigs :
          /\ nad = [n \in Networks |-> IF n = "ibnet" THEN c ELSE Net2Config]
          /\ \E anns \in [Pods -> DelPodShapes] :
                /\ \A p, q \in Pods :
                      p # q /\ HeldGuid(anns[p]) # NoGuid => HeldGuid(anns[p]) # HeldGuid(anns[q])
                /\ k8sAnn = anns
                /\ pool = [g \in Guids |->
                             IF \E p \in Pods : HeldGuid(anns[p]) = g
                             THEN <<CHOOSE p \in Pods : HeldGuid(anns[p]) = g, "ibnet">>
                             ELSE Free]
                /\ smMembers =
                     IF c.kind = "ib" /\ c.pkey # <<>> /\ ParsePKey(c.pkey) # PKeyError
                     THEN { <<ParsePKey(c.pkey), HeldGuid(anns[p])>> :
                               p \in { q \in Pods : HeldGuid(anns[q]) # NoGuid } }
                     ELSE {}
    /\ podState = [p \in Pods |-> "deleted"]
    /\ ann = [p \in Pods |-> NoAnn]
    /\ addSet = <<>>
    /\ deleteSet = [n \in {"ibnet"} |-> <<1, 2, 3>>]
    /\ addPc = "idle" /\ addTodo = {} /\ addCur = NoNet /\ addIdx = 0
    /\ guidList = <<>> /\ passedPods = <<>> /\ failedPods = <<>>
    /\ removedGuidList = <<>>
    /\ delPc = "idle" /\ delTodo = {} /\ delCur = NoNet /\ delIdx = 0
    /\ delGuidList = <<>> /\ delFailedPods = <<>>
    /\ addHist = NoHist /\ delHist = NoHist
    /\ addPass = NoPass
    /\ healthy = FALSE
    /\ life = Serving

NextDel ==
    \/ DelStart
    \/ DelInFlight

SpecDel == InitDel /\ [][NextDel]_vars

\* ================================================================== claims
Distinct(s) == \A i, j \in 1..Len(s) : i # j => s[i] # s[j]
LivePods == { p \in Pods : podState[p] = "live" }
ConfiguredKeys ==
    { k \in LivePods \X Networks : k8sAnn[k[1]].nets[k[2]].present /\ k8sAnn[k[1]].nets[k[2]].cfg }

C2_FullPass ==
    /\ addHist.outcome = "retained"
    /\ addHist.pre # <<>>
    /\ SeqToSet(addHist.pre) \subseteq addHist.written
DelFinishesNetwork ==
    /\ delHist.outcome = "running"
    /\ delHist'.outcome = "retained"
    /\ delHist'.removeSent # {}

AddFinishesNetwork ==
    /\ addHist.outcome = "running"
    /\ addHist'.outcome \in {"retained", "removeError"}
\* The step by which the delete pass finishes a network whose GUIDs it has
\* gone through to the end of the loop over guidList.
DelFinishesAnyNetwork ==
    /\ delHist.outcome = "running"
    /\ delHist'.outcome = "retained"

\* C4 (as claimed): when an add pass, respectively a delete pass, finishes a
\* network, the entry of the network is removed if no workload failed and is
\* otherwise exactly the list of the workloads that failed in the pass: no
\* workload whose annotations were written stays enqueued.  Refuted: see the
\* trace.
C4_PartialFailureRetention ==
    [][/\ AddFinishesNetwork =>
             /\ Entry(addSet', addCur) = failedPods
             /\ (failedPods = <<>> => addCur \notin DOMAIN addSet')
             /\ SeqToSet(Entry(addSet', addCur)) \cap addHist'.written = {}
       /\ DelFinishesAnyNetwork =>
             /\ Entry(deleteSet', delCur) = delFailedPods
             /\ (delFailedPods = <<>> => delCur \notin DOMAIN deleteSet')]_vars

\* C5: in an add pass on a network with a non-empty PKey, every GUID that
\* AddGuidsToPKey is called with was allocated in the pool earlier in the
\* pass, the annotations of a workload are written only when AddGuidsToPKey
\* has succeeded for a batch holding the workload's GUID, and no annotation
\* is written when AddGuidsToPKey fails.
C5_AddPassOrdering ==
    addHist.net # NoNet /\ nad[addHist.net].pkey # <<>> =>
        /\ addHist.smAdded \subseteq addHist.allocated
        /\ addHist.outcome = "running" =>
              \A p \in addHist.written : ann[p].nets[addHist.net].guid \in addHist.smAdded
        /\ addHist.written # {} => addHist.smAdded # {}
        /\ addHist.outcome = "smError" => addHist.written = {} /\ addHist.smAdded = {}
C5_Witness ==
    /\ addHist.outcome = "running"
    /\ nad[addHist.net].pkey # <<>>
    /\ Cardinality(addHist.written) >= 2
    /\ Cardinality(addHist.smAdded) >= 2

\* C6: in a delete pass on a network with a non-empty PKey, ReleaseGUID is
\* called on a GUID only when RemoveGuidsFromPKey has succeeded for a batch
\* holding it; when ParsePKey or RemoveGuidsFromPKey fails no GUID is
\* released and the deleteSet entry is what it was before the pass.
C6_DeletePassOrdering ==
    delHist.net # NoNet /\ nad[delHist.net].pkey # <<>> =>
        /\ delHist.released \subseteq delHist.removeSent
        /\ delHist.outcome \in {"pkeyError", "smError"} =>
              /\ delHist.released = {}
              /\ Entry(deleteSet, delHist.net) = delHist.pre
C6_Witness ==
    /\ delHist.outcome = "running"
    /\ nad[delHist.net].pkey # <<>>
    /\ Cardinality(delHist.released) >= 2
C6_WitnessSMError ==
    /\ delHist.outcome = "smError"
    /\ Len(delHist.pre) >= 2

\* C7 (as claimed): when SetAnnotationsOnPod answered "not found" for a
\* workload whose GUID was allocated and admitted to the PKey, then at the
\* end of the pass over the network the GUID is free in the pool,
\* RemoveGuidsFromPKey has been called with it and the workload is not in
\* addSet.  Refuted: see the trace.
C7_AnnotationWriteRace ==
    [][AddFinishesNetwork /\ nad[addCur].pkey # <<>> =>
          /\ \A g \in addHist'.released : pool'[g] = Free
          /\ addHist'.released \subseteq addHist'.removeSent
          /\ SeqToSet(Entry(addSet', addCur)) \cap addHist'.notFound = {}
          /\ (failedPods = <<>> => addCur \notin DOMAIN addSet')]_vars

\* When ParsePKey has failed in the add pass: nothing was sent to the SM and
\* no annotation was written.
C8_NoSMCall ==
    /\ ~addHist.smCalled /\ addHist.smAdded = {} /\ addHist.written = {}
    /\ \A m \in smMembers : m[1] \notin {0, 32767}

\* C8 (as claimed): when ParsePKey fails (PKey 0x0000 or 0x7fff), the add
\* pass removes the entry of the network from addSet and calls no
\* AddGuidsToPKey.
C8_ReservedPKeyRemoved ==
    addHist.outcome = "pkeyError" =>
        /\ addHist.net \notin DOMAIN addSet
        /\ C8_NoSMCall

\* C8 (amended): when ParsePKey fails (PKey 0x0000 or 0x7fff), the add pass
\* leaves the entry of the network in addSet with the workloads it had before
\* the pass, calls no AddGuidsToPKey and writes no annotation.
C8_ReservedPKeyLeft ==
    addHist.outcome = "pkeyError" =>
        /\ Entry(addSet, addHist.net) = addHist.pre
        /\ C8_NoSMCall
C8_Witness ==
    /\ addHist.outcome = "pkeyError"
    /\ Len(addHist.pre) >= 2
    /\ Cardinality(addHist.allocated) >= 2

\* The step by which the add pass gives up a network whose config is
\* malformed or is not an ib-sriov one.
AddRejectsNetwork ==
    /\ addHist' # addHist
    /\ addHist'.outcome \in {"parseError", "notIb"}
\* The step allocates no GUID, calls no SM and writes no annotation.
AddTouchesNothing ==
    /\ pool' = pool /\ smMembers' = smMembers /\ k8sAnn' = k8sAnn
    /\ \A p \in Listed(addSet') : ann'[p] = ann[p]

\* C9 (as claimed): when the config of the network is malformed JSON or holds
\* no ib-sriov spec, the add pass removes the entry of the network from
\* addSet, without allocating a GUID, calling the SM or writing an annotation.
C9_BadNetworkRemoved ==
    [][AddRejectsNetwork =>
          /\ addHist'.net \notin DOMAIN addSet'
          /\ AddTouchesNothing]_vars

\* C9 (amended): when the config of the network holds no ib-sriov spec the
\* add pass removes the entry of the network from addSet; when the config is
\* malformed JSON the add pass leaves the entry as it is; in both cases it
\* allocates no GUID, calls no SM and writes no annotation.
C9_BadNetworkSkipped ==
    [][AddRejectsNetwork =>
          /\ addHist'.outcome = "notIb" => addHist'.net \notin DOMAIN addSet'
          /\ addHist'.outcome = "parseError" => addSet' = addSet
          /\ AddTouchesNothing]_vars
C9_Witness ==
    /\ addHist.outcome = "parseError"
    /\ Len(addHist.pre) >= 2
    /\ Entry(addSet, addHist.net) = addHist.pre
C9_WitnessNotIb ==
    /\ addHist.outcome = "notIb"
    /\ Len(addHist.pre) >= 2

\* C10: when GetNetworkAttachmentDefinition fails or AddGuidsToPKey returns
\* an error, the addSet entry of the network holds the workloads it held
\* before the pass; the step on which the fetch fails changes neither the
\* pool nor the annotations.
C10_SoftFailLeavesEntry ==
    [][/\ addHist' # addHist /\ addHist'.outcome \in {"fetchError", "smError"} =>
             Entry(addSet', addHist'.net) = addHist'.pre
       /\ addHist' # addHist /\ addHist'.outcome = "fetchError" =>
             pool' = pool /\ ann' = ann /\ k8sAnn' = k8sAnn /\ addSet' = addSet]_vars
C10_Witness ==
    /\ addHist.outcome = "smError"
    /\ Len(addHist.pre) >= 2
    /\ Cardinality(addHist.allocated) >= 1
    /\ Len(addHist.pre) > Cardinality(addHist.allocated)
C10_WitnessFetch ==
    /\ addHist.outcome = "fetchError"
    /\ Len(addHist.pre) >= 2

\* The step that ends the loop over the pods of the network.
AddLeavesPodLoop == addPc = "alloc" /\ addPc' # "alloc"
\* The step on which a network fails as a whole.
AddNetworkFails ==
    /\ addHist' # addHist
    /\ addHist'.outcome \in {"fetchError", "parseError", "pkeyError", "smError"}
\* What can have put pod p in failedPods in the loop over the pods.
LocalFailure(p) ==
    \/ ~ParsePodNetworkAnnotation(ann[p])
    \/ ~GetPodNetwork(ann[p], addCur).present
    \/ GetPodNetworkGuid(GetPodNetwork(ann[p], addCur)) = NoGuid
    \/ ~AllocateOK(pool, p, addCur, GetPodNetworkGuid(GetPodNetwork(ann[p], addCur)))

\* C11: in one add pass, the workloads of a network are split into failedPods
\* (the workloads with a failure of their own) and passedPods, every passed
\* workload holds its GUID in the pool, the batch of AddGuidsToPKey is exactly
\* the GUIDs of the passed workloads and every passed workload gets its
\* annotation write; a network that fails as a whole leaves the entries of
\* the other networks alone, and the pass visits every network it started
\* with before it ends.
C11_FailureIsolation ==
    [][/\ AddLeavesPodLoop =>
             /\ SeqToSet(passedPods) \cap SeqToSet(failedPods) = {}
             /\ SeqToSet(passedPods) \cup SeqToSet(failedPods) = SeqToSet(addSet[addCur])
             /\ Len(guidList) = Len(passedPods)
             /\ \A i \in 1..Len(passedPods) :
                   /\ pool[guidList[i]] = <<passedPods[i], addCur>>
                   /\ ann[passedPods[i]].nets[addCur].guid = guidList[i]
             /\ \A p \in SeqToSet(failedPods) : LocalFailure(p)
             /\ (addPc' = "commit" /\ AddWantsPKey) =>
                   addHist'.smAdded = SeqToSet(guidList)
       /\ AddFinishesNetwork =>
             SeqToSet(passedPods) \subseteq
                 addHist'.written \cup addHist'.notFound \cup SeqToSet(failedPods)
       /\ AddNetworkFails =>
             \A n \in Networks \ {addHist'.net} : Entry(addSet', n) = Entry(addSet, n)
       /\ (addPc = "fetch" /\ addPc' = "idle") => addPass.seen = addPass.nets]_vars
C11_Witness ==
    /\ addPass.nets = Networks
    /\ "ibnet" \in addPass.seen
    /\ ~JsonUnmarshalOK(nad["ibnet"])
    /\ "ibnet" \in DOMAIN addSet
    /\ addCur = "net2"
    /\ Len(failedPods) >= 1
    /\ addHist.written # {}
    /\ addHist.smAdded # {}

\* Workload p waits in addSet under n with annotations that parse and select n.
PendingAdd(p, n) ==
    /\ healthy
    /\ p \in SeqToSet(Entry(addSet, n))
    /\ ParsePodNetworkAnnotation(ann[p])
    /\ GetPodNetwork(ann[p], n).present
\* Workload p is out of addSet under n.
LeftAdd(p, n) == p \notin SeqToSet(Entry(addSet, n))
\* Workload p is out of addSet under n, configured with a GUID admitted to the PKey.
DoneAdd(p, n) ==
    /\ LeftAdd(p, n)
    /\ k8sAnn[p].nets[n].cfg
    /\ k8sAnn[p].nets[n].guid \in Guids
    /\ nad[n].pkey # <<>> => <<ParsePKey(nad[n].pkey), k8sAnn[p].nets[n].guid>> \in smMembers
PendingDelete(p, n) == healthy /\ p \in SeqToSet(Entry(deleteSet, n))
DoneDelete(p, n) ==
    /\ p \notin SeqToSet(Entry(deleteSet, n))
    /\ p \notin SeqToSet(Entry(addSet, n)) => \A g \in Guids : pool[g] # <<p, n>>

GoodNetwork(n) ==
    /\ JsonUnmarshalOK(nad[n]) /\ GetIbSriovCniFromNetworkOK(nad[n])
    /\ nad[n].pkey # <<>> => ParsePKey(nad[n].pkey) # PKeyError
\* The selection entry of p carries no GUID that the pool refuses to p.
AcceptableGuid(p, n) ==
    \/ GetPodNetworkGuid(GetPodNetwork(ann[p], n)) = NoGuid
    \/ AllocateOK(pool, p, n, GetPodNetworkGuid(GetPodNetwork(ann[p], n)))

StatedOrder == <<"ReadConfig", "ValidateConfig", "NewK8sClient", "NewGuidPool",
                 "InitPool", "LoadPlugin", "Validate", "NewWatcher">>
Position(seq, x) == CHOOSE i \in 1..Len(seq) : seq[i] = x
PassesUntouched ==
    /\ addPc = "idle" /\ delPc = "idle"
    /\ addHist = NoHist /\ delHist = NoHist
    /\ addSet = <<>> /\ deleteSet = <<>>
\* C13: NewDaemon performs its steps in the stated order (configuration read
\* and validated, orchestrator client, pool created and recovered by
\* InitPool, plugin loaded, subnet-manager client validated, watcher
\* created); a step runs only when every earlier one has succeeded; the
\* pool Run starts with is the one InitPool recovered; no pass and no
\* watcher event happens before all steps are done and Run has started the
\* timers; after a failed step nothing happens at all: no daemon, no later
\* step, no watcher, no pass.
C13_StartupOrdering ==
    /\ [](\A j \in 1..Len(StatedOrder) :
            StatedOrder[j] \in SeqToSet(life.done) =>
                \A i \in 1..(j - 1) :
                    /\ StatedOrder[i] \in SeqToSet(life.done)
                    /\ Position(life.done, StatedOrder[i]) < Position(life.done, StatedOrder[j]))
    /\ [](Distinct(life.done))
    /\ [](life.phase \in {"boot", "failed", "ready"} => PassesUntouched)
    /\ [](life.phase \notin {"boot", "failed"} => life.done = BootSteps /\ life.failedAt = "none")
    /\ [](life.phase = "ready" =>
            pool = InitPool(k8sAnn, {p \in Pods : podState[p] = "live"}))
    /\ [](life.failedAt # "none" =>
            /\ life.phase = "failed"
            /\ life.failedAt \notin SeqToSet(life.done)
            /\ PassesUntouched)
    /\ [][life.failedAt = "none"]_vars
    /\ [][life.done' # life.done =>
            /\ life.phase = "boot"
            /\ \E x \in SeqToSet(BootSteps) : life.done' = Append(life.done, x)]_vars
\* Validate fails after InitPool has recovered workload 1's GUID.
C13_Witness ==
    /\ life.phase = "failed"
    /\ life.failedAt = "Validate"
    /\ "InitPool" \in SeqToSet(life.done)
    /\ \E g \in Guids : pool[g] # Free
\* Every step succeeded, Run started the timers and the watcher, and a pass
\* is under way on the recovered pool.
C13_WitnessRun ==
    /\ life.phase = "running"
    /\ addPc = "alloc"
    /\ \E g \in Guids : pool[g] = <<1, "ibnet">>
    /\ k8sAnn[1] = Recovered

\* The add pass handles, in this step, workload p whose selection entry for
\* the network carries GUID g.
UserGuidStep(p, g) ==
    /\ addPc = "alloc" /\ addIdx <= Len(addSet[addCur])
    /\ addIdx' = addIdx + 1
    /\ p = addSet[addCur][addIdx]
    /\ ParsePodNetworkAnnotation(ann[p])
    /\ GetPodNetwork(ann[p], addCur).present
    /\ g = GetPodNetworkGuid(GetPodNetwork(ann[p], addCur))
HeldByOther(p, g) == g \in Guids /\ pool[g] \notin {Free, <<p, addCur>>}
UserGuidRefused(p) ==
    /\ failedPods' = Append(failedPods, p)
    /\ guidList' = guidList /\ passedPods' = passedPods
    /\ pool' = pool /\ ann' = ann
UserGuidTaken(p, g) ==
    /\ g \in Guids
    /\ pool' = [pool EXCEPT ![g] = <<p, addCur>>]
    /\ guidList' = Append(guidList, g) /\ passedPods' = Append(passedPods, p)
    /\ failedPods' = failedPods /\ ann' = ann
\* What is sent to the subnet manager and what is committed comes from the
\* workloads that passed only.
OnlyPassedGoOn ==
    /\ addHist'.smAdded # addHist.smAdded => addHist'.smAdded = SeqToSet(guidList)
    /\ addHist'.written # addHist.written =>
          addHist'.written \subseteq SeqToSet(passedPods) \ SeqToSet(failedPods)
Shrinks(m1, m2) == \A n \in Networks : SeqToSet(Entry(m2, n)) \subseteq SeqToSet(Entry(m1, n))
\* C15: while a pass is in flight (it holds its map's lock) no watcher
\* enqueue reaches that map: the map only loses what the pass itself takes
\* out, and the list the pass works on is still the entry of the map when
\* the pass removes or replaces it, so no enqueued workload is lost; the two
\* passes never block each other: whatever the other pass is doing, a pass
\* in flight can take its next step; and the lock is released on every
\* path: a pass in flight always comes to its end.
C15_MapLocking ==
    /\ [][ /\ addPc # "idle" => Shrinks(addSet, addSet')
           /\ delPc # "idle" => Shrinks(deleteSet, deleteSet') ]_vars
    /\ [](addPc \notin {"idle", "fetch"} => addHist.pre = Entry(addSet, addCur))
    /\ [](delPc \notin {"idle", "fetch"} => delHist.pre = Entry(deleteSet, delCur))
    /\ [](addPc # "idle" => ENABLED AddInFlight)
    /\ [](delPc # "idle" => ENABLED DelInFlight)
    /\ (addPc # "idle") ~> (addPc = "idle")
    /\ (delPc # "idle") ~> (delPc = "idle")
\* Both passes are in flight at once: the add pass is committing the
\* workloads of its entry while the delete pass releases GUIDs.
C15_Witness ==
    /\ addPc = "commit" /\ delPc = "release"
    /\ Len(Entry(addSet, "ibnet")) >= 1
    /\ Len(Entry(deleteSet, "ibnet")) >= 1
    /\ addHist.pre = Entry(addSet, "ibnet")

\* C16: Run leaves its wait only on an interrupt or termination signal;
\* when it has returned the watcher is stopped and the stop channel is
\* closed: no workload is enqueued any more and no add or delete pass
\* starts; a pass that was in flight goes on step by step, is never cut
\* short, and reaches its end, where its map's lock is free again; once
\* both passes are at rest nothing moves any more.
C16_SignalShutdown ==
    /\ [][ /\ (life.phase = "running" /\ life'.phase # "running") =>
                 life'.phase = "signalled" /\ life'.sig \in Signals
           /\ (life.phase # "stopped" /\ life'.phase = "stopped") =>
                 life.phase = "watcherStopped" /\ life.sig \in Signals
           /\ life.phase = "stopped" =>
                 /\ life' = life
                 /\ ~(addPc = "idle" /\ addPc' # "idle")
                 /\ ~(delPc = "idle" /\ delPc' # "idle")
                 /\ Shrinks(addSet, addSet') /\ Shrinks(deleteSet, deleteSet')
                 /\ podState' = podState
                 /\ (addPc # "idle" \/ delPc # "idle") ]_vars
    /\ [](life.phase = "stopped" /\ addPc # "idle" => ENABLED AddInFlight)
    /\ [](life.phase = "stopped" /\ delPc # "idle" => ENABLED DelInFlight)
    /\ (life.phase = "stopped" /\ addPc # "idle") ~> (life.phase = "stopped" /\ AddMapFree)
    /\ (life.phase = "stopped" /\ delPc # "idle") ~> (life.phase = "stopped" /\ DelMapFree)
\* Run has returned after SIGTERM while both passes were in flight, and
\* the add map still holds work that no later pass will take up.
C16_Witness ==
    /\ life.phase = "stopped" /\ life.sig = "SIGTERM"
    /\ addPc = "commit" /\ delPc = "sm"
    /\ Len(Entry(addSet, "ibnet")) >= 1

\* C17: every GUID that is a member of a PKey at the subnet manager (admitted
\* and not yet withdrawn) is allocated in the pool, in every reachable state.
C17_PoolSMConsistency ==
    \A m \in smMembers : m[2] \in Guids => pool[m[2]] # Free

GuidsOf(p, n) == { g \in Guids : pool[g] = <<p, n>> }
RecordedGuid(p, n) ==
    IF ann[p].ok /\ ann[p].nets[n].present /\ ann[p].nets[n].guid # NoGuid
    THEN ann[p].nets[n].guid
    ELSE IF k8sAnn[p].ok /\ k8sAnn[p].nets[n].present THEN k8sAnn[p].nets[n].guid
    ELSE NoGuid
\* C18: the pool holds at most one GUID per (workload, network) key, every
\* GUID allocated in the pool is the one recorded in the annotations of the
\* workload that owns it, and a workload the add pass handles again while
\* the pool holds a GUID for its key is given that same GUID again.
C18_RetryStability ==
    /\ [](\A p \in Pods, n \in Networks : Cardinality(GuidsOf(p, n)) <= 1)
    /\ [](\A p \in Pods, n \in Networks : \A g \in GuidsOf(p, n) : RecordedGuid(p, n) = g)
    /\ [][ \A p \in Pods :
              ( /\ addPc = "alloc" /\ addIdx <= Len(addSet[addCur])
                /\ addIdx' = addIdx + 1
                /\ p = addSet[addCur][addIdx]
                /\ GuidsOf(p, addCur) # {} ) =>
                  /\ passedPods' = Append(passedPods, p)
                  /\ \E g \in GuidsOf(p, addCur) : guidList' = Append(guidList, g)
                  /\ pool' = pool ]_vars

\* C19: when RemoveGuidsFromPKey fails for the GUIDs of the removed
\* workloads, the pass still applies the retention to the network: its
\* entry is removed when failedPods is empty and replaced by failedPods
\* otherwise, so no written and no not-found workload stays enqueued.
C19_BestEffortWithdrawal ==
    [][ (addHist' # addHist /\ addHist'.outcome = "removeError") =>
           /\ IF Len(failedPods) = 0
              THEN addCur \notin DOMAIN addSet'
              ELSE addCur \in DOMAIN addSet' /\ addSet'[addCur] = failedPods
           /\ \A p \in addHist.written \cup addHist.notFound :
                 p \notin SeqToSet(Entry(addSet', addCur)) ]_vars

NotMarkedConfigured(a, n) == a.ok /\ a.nets[n].present /\ ~a.nets[n].cfg
CannotBeUndone(a, n) ==
    \/ ~a.ok
    \/ ~a.nets[n].present
    \/ a.nets[n].cfg /\ a.nets[n].guid \in {NoGuid, BadGuid}
\* C20: in the delete pass a workload whose selection entry for the network
\* is not marked configured is skipped: no step of the pass withdraws its
\* GUID from the PKey or frees it in the pool, it never joins failedPods,
\* and it has left deleteSet when the pass applies the retention to the
\* network; a workload whose annotations do not parse, that has no entry
\* for the network, or whose configured entry has no GUID or an unparsable
\* one, joins failedPods and is retained in deleteSet.
C20_DeleteEligibility ==
    [][ \A p \in Pods :
          /\ (delCur # NoNet /\ p \in SeqToSet(Entry(deleteSet, delCur))
              /\ NotMarkedConfigured(k8sAnn[p], delCur)) =>
                /\ p \notin SeqToSet(delFailedPods)
                /\ k8sAnn[p].nets[delCur].guid \in Guids =>
                      /\ pool'[k8sAnn[p].nets[delCur].guid] = pool[k8sAnn[p].nets[delCur].guid]
                      /\ k8sAnn[p].nets[delCur].guid \notin SeqToSet(delGuidList)
                      /\ \A pk \in { m[1] : m \in smMembers } :
                            <<pk, k8sAnn[p].nets[delCur].guid>> \in smMembers =>
                                <<pk, k8sAnn[p].nets[delCur].guid>> \in smMembers'
                /\ delHist'.outcome = "retained" =>
                      p \notin SeqToSet(Entry(deleteSet', delCur))
          /\ (delCur # NoNet /\ p \in SeqToSet(Entry(deleteSet, delCur))
              /\ CannotBeUndone(k8sAnn[p], delCur)) =>
                /\ p \in SeqToSet(delFailedPods)
                /\ delHist'.outcome = "retained" =>
                      p \in SeqToSet(Entry(deleteSet', delCur)) ]_vars
\* The pass has finished ibnet: workload 1, allocated but never marked
\* configured, was skipped and left the map with its GUID still allocated
\* and still a member of the PKey; workload 2, configured without a GUID,
\* is retained; workload 3's GUID was withdrawn and released.
C20_Witness ==
    /\ delHist.outcome = "retained" /\ delHist.net = "ibnet"
    /\ delHist.pre = <<1, 2, 3>>
    /\ deleteSet = [n \in {"ibnet"} |-> <<2>>]
    /\ pool[RangeStart] = <<1, "ibnet">>
    /\ <<5, RangeStart>> \in smMembers
    /\ delHist.released = {RangeEnd}
    /\ delHist.removeSent = {RangeEnd}
====
